---- MODULE Spec2Model ----
(***************************************************************************)
(* State-machine model of the call-center orchestration layer:            *)
(*   - the call record store and the handlers that move a call through    *)
(*     its statuses (api/routes/calls.py, api/routes/sip_integration.py), *)
(*   - the agent instance registry, its supervisor and the scaling        *)
(*     endpoint (api/routes/agent_management.py),                         *)
(*   - the job router's routing table and room cleanup (agent_worker.py). *)
(*                                                                         *)
(* Handlers are asyncio coroutines on one event loop: a handler runs      *)
(* atomically between two suspension points (a store access, a sleep), so *)
(* every action below is the code between two awaits.                     *)
(***************************************************************************)
EXTENDS Integers, Sequences, FiniteSets, TLC

VARIABLES
    now,        \* wall clock (datetime.utcnow), in ticks of 1/TicksPerSecond s
    nticks,     \* how many times the clock has advanced (bounds the model)
    calls,      \* the calls collection: call id -> document
    last,       \* history: for each call, the handler that wrote it last
    initiations,\* outbound initiations suspended in the gateway: call id -> copy
    agent_instances, \* the registry dict, in insertion order
    stop_tasks, \* stop_agent_instance coroutines suspended in a sleep
    scale_waits,\* scale_agent coroutines suspended in AIAgent.get
    monitors,   \* the agents that have a monitor_agent_instances loop
    active_agents, \* AgentWorkerManager.active_agents: room name -> entry
    cleanups,   \* cleanup_agent_instance coroutines suspended in the store
    scaling_rules, \* the scaling_rules dict: agent id -> ScalingRule
    auto_scalers,  \* running setup_auto_scaling loops: agent id -> replica range
    watchdogs,  \* monitor_sip_call coroutines: call id -> progress
    response    \* what the last deploy, scale, route_job or auto-scaling call returned

callVars == <<calls, last, initiations>>
instVars == <<agent_instances, stop_tasks, scale_waits, monitors>>
roomVars == <<active_agents, cleanups>>
scaleVars == <<scaling_rules, auto_scalers>>
vars == <<now, nticks, calls, last, initiations, agent_instances, stop_tasks,
          scale_waits, monitors, active_agents, cleanups,
          scaling_rules, auto_scalers, watchdogs, response>>

(***************************************************************************)
(* Bounds of the model.                                                   *)
(***************************************************************************)
TicksPerSecond == 2
MaxTicks == 3
MaxInstances == 3
MaxJumps == 2
MaxReplicas == 2
MaxStopTasks == 1
MaxParticipants == 2
MaxCleanups == 2
MaxScaleStep == 2
MaxActiveCalls == 2
MaxNegativeTarget == 2

(***************************************************************************)
(* Optional values: None is the empty sequence, Some(x) is <<x>>.          *)
(***************************************************************************)
None == <<>>
Some(x) == <<x>>
IsSome(o) == o # <<>>
Get(o) == o[1]

CallIds == {"c1"}
RoomNames == {"room-1"}
Outcomes == {"resolved"}
\* a reason given as the empty string counts as no reason (if reason:)
Reasons == {"busy", ""}
OptOutcomes == {None} \cup {Some(x) : x \in Outcomes}
OptReasons == {None} \cup {Some(x) : x \in Reasons}

TerminalStatuses == {"completed", "failed", "no_answer", "transferred"}
CallStatuses == {"initiated", "ringing", "answered"} \cup TerminalStatuses

(***************************************************************************)
(* int(timedelta.total_seconds()): Python's int() truncates toward zero.   *)
(* d is a difference of two clock readings in ticks.                       *)
(***************************************************************************)
IntSecondsCeil(d) ==
    IF d >= 0 THEN (d + TicksPerSecond - 1) \div TicksPerSecond
              ELSE -((-d) \div TicksPerSecond)

IntSeconds(d) ==
    IF d >= 0 THEN d \div TicksPerSecond ELSE -((-d) \div TicksPerSecond)

(***************************************************************************)
(* models.Call: a new document, with its field defaults.                   *)
(***************************************************************************)
NewCall(t) ==
    [ call_status      |-> "initiated",
      room_name        |-> None,
      participant_id   |-> None,
      started_at       |-> t,
      answered_at      |-> None,
      ended_at         |-> None,
      duration_seconds |-> None,
      call_outcome     |-> None ]

(***************************************************************************)
(* The documents the handlers compute between Call.get and call.save.      *)
(***************************************************************************)
StartDoc(doc, room, pid, t) ==
    [doc EXCEPT !.call_status = "ringing",
                !.room_name = Some(room),
                !.participant_id = pid,
                !.started_at = t]

AnswerDoc(doc, t) ==
    [doc EXCEPT !.call_status = "answered", !.answered_at = Some(t)]

EndDoc(doc, outcome, t) ==
    [doc EXCEPT !.call_status = "completed",
                !.ended_at = Some(t),
                !.duration_seconds =
                    IF IsSome(doc.answered_at)
                    THEN Some(IntSeconds(t - Get(doc.answered_at)))
                    ELSE @,
                !.call_outcome = IF IsSome(outcome) THEN outcome ELSE @]

\* f"Failed: {reason}"
FailedText(reason) ==
    CASE reason = "busy" -> "Failed: busy"
      [] reason = ""     -> "Failed: "

\* fail_call writing the outcome text whether or not a reason was given
FailDocAlwaysText(doc, reason, t) ==
    [doc EXCEPT !.call_status = "failed",
                !.ended_at = Some(t),
                !.call_outcome =
                    Some(FailedText(IF IsSome(reason) THEN Get(reason) ELSE ""))]

FailDoc(doc, reason, t) ==
    [doc EXCEPT !.call_status = "failed",
                !.ended_at = Some(t),
                !.call_outcome =
                    IF IsSome(reason) /\ Get(reason) # ""
                    THEN Some(FailedText(Get(reason))) ELSE @]

ParticipantLeftDoc(doc, t) ==
    [doc EXCEPT !.call_status = "completed",
                !.ended_at = Some(t),
                !.duration_seconds =
                    IF IsSome(doc.answered_at)
                    THEN Some(IntSeconds(t - Get(doc.answered_at)))
                    ELSE @]

RoomFinishedDoc(doc, t) ==
    [doc EXCEPT !.call_status = "completed", !.ended_at = Some(t)]

(***************************************************************************)
(* A handler loads the call (Call.get, 404 when it is missing), updates    *)
(* the document and saves it whole (call.save).  The history remembers     *)
(* the handler, its argument, the clock and the status it found.           *)
(***************************************************************************)
Save(op, c, arg, doc) ==
    /\ c \in DOMAIN calls
    /\ calls' = [calls EXCEPT ![c] = doc]
    /\ last' = [last EXCEPT ![c] =
                   [op |-> op, arg |-> arg, at |-> now, from |-> calls[c].call_status]]
    /\ UNCHANGED initiations

Write(op, c, arg, doc) ==
    /\ Save(op, c, arg, doc)
    /\ UNCHANGED <<now, nticks>>
    /\ UNCHANGED instVars
    /\ UNCHANGED roomVars
    /\ UNCHANGED <<scaleVars, watchdogs, response>>

----------------------------------------------------------------------------
(***************************************************************************)
(* Call handlers.                                                          *)
(***************************************************************************)

\* POST /calls/ : a new record under a fresh uuid
create_call(c) ==
    /\ c \notin DOMAIN calls
    /\ calls' = calls @@ (c :> NewCall(now))
    /\ last' = last @@ (c :> [op |-> "create", arg |-> None, at |-> now,
                              from |-> "initiated"])
    /\ UNCHANGED initiations
    /\ UNCHANGED <<now, nticks>>
    /\ UNCHANGED instVars
    /\ UNCHANGED roomVars
    /\ UNCHANGED <<scaleVars, watchdogs, response>>

\* POST /calls/{id}/start
start_call(c, room) ==
    Write("start", c, Some(room), StartDoc(calls[c], room, None, now))

\* POST /calls/{id}/answer
answer_call(c) ==
    Write("answer", c, None, AnswerDoc(calls[c], now))

\* POST /calls/{id}/end
end_call(c, outcome) ==
    Write("end", c, outcome, EndDoc(calls[c], outcome, now))

\* POST /calls/{id}/fail
fail_call(c, reason) ==
    Write("fail", c, reason, FailDoc(calls[c], reason, now))

\* webhook participant_joined; customer: the identity starts with "customer-"
handle_participant_joined(c, customer) ==
    /\ c \in DOMAIN calls
    /\ IF customer
       THEN Write("participant_joined", c, None, AnswerDoc(calls[c], now))
       ELSE UNCHANGED vars

\* webhook participant_left
handle_participant_left(c, customer) ==
    /\ c \in DOMAIN calls
    /\ IF customer
       THEN Write("participant_left", c, None, ParticipantLeftDoc(calls[c], now))
       ELSE UNCHANGED vars

\* webhook room_finished
handle_room_finished(c) ==
    /\ c \in DOMAIN calls
    /\ IF calls[c].call_status \notin {"completed", "failed"}
       THEN Write("room_finished", c, None, RoomFinishedDoc(calls[c], now))
       ELSE UNCHANGED vars

\* time passes by one tick
Tick ==
    /\ nticks < MaxTicks
    /\ now' = now + 1
    /\ nticks' = nticks + 1
    /\ UNCHANGED callVars
    /\ UNCHANGED instVars
    /\ UNCHANGED roomVars
    /\ UNCHANGED <<scaleVars, watchdogs, response>>

----------------------------------------------------------------------------
(***************************************************************************)
(* Agent instance registry and supervisor (api/routes/agent_management.py) *)
(*                                                                         *)
(* agent_instances is the registry dict in insertion order.  An entry is   *)
(* the AgentInstance object; its field `process` stands for the worker     *)
(* process behind process_id ("alive" or "gone").  A stop coroutine holds  *)
(* a reference to the object it found under its id: `attached` tells       *)
(* whether that object is still the one registered under the id.           *)
(***************************************************************************)
\* a1 is an active agent of an active project; a2 is missing or inactive
AgentIds == {"a1", "a2"}
ActiveAgents == {"a1"}

\* the check skipped: every agent passes
IsActiveAlways(agent) == TRUE

\* agent = await AIAgent.get(agent_id); not (not agent or not agent.is_active)
IsActive(agent) == agent \in ActiveAgents

\* the deployment's min_replicas and max_replicas
min_replicas == 1
max_replicas == 2

\* except Exception as e: raise HTTPException(status_code=500, ...): whatever
\* is raised inside the handler's try block, an HTTPException included,
\* reaches the caller as a 500
Surfaced(status_code) == "500"

StartingGraceSeconds == 30
HeartbeatTimeoutSeconds == 300
TermWaitSeconds == 5

\* f"{agent_id}-{int(timestamp)}-{i}" and f"{agent_id}-scale-{int(timestamp)}-{i}"
InstanceId(agent, kind, t, i) ==
    [agent |-> agent, kind |-> kind, ts |-> t \div TicksPerSecond, i |-> i]

\* deploy_agent_instance: the AgentInstance built around the spawned process
NewInstance(id, agent, t) ==
    [ instance_id    |-> id,
      agent_id       |-> agent,
      status         |-> "starting",
      started_at     |-> t,
      last_heartbeat |-> t,
      process        |-> "alive" ]

Positions(reg, id) == {k \in DOMAIN reg : reg[k].instance_id = id}
RegisteredIds == {agent_instances[k].instance_id : k \in DOMAIN agent_instances}
Position(id) == CHOOSE k \in DOMAIN agent_instances : agent_instances[k].instance_id = id
Instance(id) == agent_instances[Position(id)]

\* agent_instances[instance_id] = instance: a key that exists keeps its place
Register(reg, inst) ==
    IF Positions(reg, inst.instance_id) = {} THEN Append(reg, inst)
    ELSE [k \in DOMAIN reg |->
            IF reg[k].instance_id = inst.instance_id THEN inst ELSE reg[k]]

\* for i in range(n): deploy_agent_instance(...); agent_instances[id] = instance
RECURSIVE DeployLoop(_, _, _, _, _)
DeployLoop(reg, agent, kind, n, i) ==
    IF i >= n THEN reg
    ELSE DeployLoop(Register(reg, NewInstance(InstanceId(agent, kind, now, i), agent, now)),
                    agent, kind, n, i + 1)

\* the ids a deploy loop of n instances writes
DeployedIds(agent, kind, n) == {InstanceId(agent, kind, now, i) : i \in 0..(n - 1)}

\* the stop coroutines, those holding an object registered under one of `ids`
\* now holding an object that is no longer in the registry
Detach(tasks, ids) ==
    {[t EXCEPT !.attached = @ /\ t.instance_id \notin ids] : t \in tasks}

\* the registry entries of an agent that are starting or running, in dict order
CurrentInstances(agent) ==
    SelectSeq(agent_instances,
              LAMBDA x : x.agent_id = agent /\ x.status \in {"starting", "running"})

\* update_instance_status, with the status check dropped
UpdatedStatusAnyStatus(inst, t) ==
    IF inst.process = "alive"
    THEN [inst EXCEPT !.last_heartbeat = t,
                      !.status = IF t - inst.started_at
                                      > StartingGraceSeconds * TicksPerSecond
                                 THEN "running" ELSE @]
    ELSE [inst EXCEPT !.status = "stopped"]

\* update_instance_status, promoting at StartingGraceSeconds already
UpdatedStatusAtGrace(inst, t) ==
    IF inst.process = "alive"
    THEN [inst EXCEPT !.last_heartbeat = t,
                      !.status = IF @ = "starting"
                                    /\ t - inst.started_at
                                         >= StartingGraceSeconds * TicksPerSecond
                                 THEN "running" ELSE @]
    ELSE [inst EXCEPT !.status = "stopped"]

\* update_instance_status: os.kill(pid, 0) succeeds for a live process and
\* raises ProcessLookupError for one that is gone
UpdatedStatus(inst, t) ==
    IF inst.process = "alive"
    THEN [inst EXCEPT !.last_heartbeat = t,
                      !.status = IF @ = "starting"
                                    /\ t - inst.started_at
                                         > StartingGraceSeconds * TicksPerSecond
                                 THEN "running" ELSE @]
    ELSE [inst EXCEPT !.status = "stopped"]

\* monitor_agent_instances, one instance of one pass
MonitoredStatus(inst, t) ==
    LET u == UpdatedStatus(inst, t) IN
    IF t - u.last_heartbeat > HeartbeatTimeoutSeconds * TicksPerSecond
    THEN [u EXCEPT !.status = "error"]
    ELSE u

\* sorted(current_instances, key=started_at), newest first
RECURSIVE SortedNewestFirst(_)
SortedNewestFirst(insts) ==
    IF insts = <<>> THEN <<>>
    ELSE LET rest == SortedNewestFirst(Tail(insts))
             x == Head(insts)
         IN SelectSeq(rest, LAMBDA y : y.started_at > x.started_at)
              \o <<x>> \o SelectSeq(rest, LAMBDA y : y.started_at <= x.started_at)

\* sorted(current_instances, key=lambda x: x.started_at): ascending and stable
RECURSIVE SortedByStartedAt(_)
SortedByStartedAt(insts) ==
    IF insts = <<>> THEN <<>>
    ELSE LET rest == SortedByStartedAt(Tail(insts))
             x == Head(insts)
         IN SelectSeq(rest, LAMBDA y : y.started_at < x.started_at)
              \o <<x>> \o SelectSeq(rest, LAMBDA y : y.started_at >= x.started_at)

\* instances_to_stop = sorted(...)[:scale_down_count], as instance ids
InstancesToStop(agent, count) ==
    LET sorted == SortedByStartedAt(CurrentInstances(agent)) IN
    [k \in 1..(IF count < Len(sorted) THEN count ELSE Len(sorted))
        |-> sorted[k].instance_id]

\* stop_agent_instance up to its first sleep, for the ids of `queue` in turn on
\* the registry reg: an id that is not registered returns at once and the next
\* task starts.  Gives the registry and the suspended coroutine, if any.
RECURSIVE StartStop(_, _)
StartStop(reg, queue) ==
    IF queue = <<>> THEN [reg |-> reg, tasks |-> {}]
    ELSE IF Positions(reg, Head(queue)) = {} THEN StartStop(reg, Tail(queue))
    ELSE LET id == Head(queue)
             k == CHOOSE k \in Positions(reg, id) : TRUE
         IN IF reg[k].process = "alive"
            THEN \* status = "stopping"; SIGTERM; await asyncio.sleep(5)
                 [ reg   |-> [reg EXCEPT ![k].status = "stopping"],
                   tasks |-> {[instance_id |-> id, attached |-> TRUE, pc |-> "term",
                               began |-> now, queue |-> Tail(queue)]} ]
            ELSE \* ProcessLookupError; status = "stopped"; await asyncio.sleep(10)
                 [ reg   |-> [reg EXCEPT ![k].status = "stopped"],
                   tasks |-> {[instance_id |-> id, attached |-> TRUE, pc |-> "grace",
                               began |-> now, queue |-> Tail(queue)]} ]

\* POST /deploy.  The background tasks of the answer run one after the other:
\* with auto_scale the setup_auto_scaling loop comes first and runs on, so the
\* monitor loop queued behind it does not start.
deploy_agent(agent, replicas, auto_scale) ==
    /\ IF ~IsActive(agent)
       THEN \* raise HTTPException(status_code=404, ...)
            /\ response' = [op |-> "deploy", result |-> Surfaced("404")]
            /\ UNCHANGED <<agent_instances, stop_tasks, monitors, auto_scalers>>
       ELSE IF CurrentInstances(agent) # <<>> /\ ~auto_scale
       THEN \* raise HTTPException(status_code=400, ...)
            /\ response' = [op |-> "deploy", result |-> Surfaced("400")]
            /\ UNCHANGED <<agent_instances, stop_tasks, monitors, auto_scalers>>
       ELSE /\ agent_instances' =
                  DeployLoop(agent_instances, agent, "deploy", replicas, 0)
            /\ Len(agent_instances') <= MaxInstances
            /\ stop_tasks' = Detach(stop_tasks, DeployedIds(agent, "deploy", replicas))
            /\ monitors' = IF auto_scale THEN monitors ELSE monitors \cup {agent}
            /\ auto_scalers' =
                  IF auto_scale
                  THEN [a \in DOMAIN auto_scalers \cup {agent} |->
                          IF a = agent
                          THEN [min_replicas |-> min_replicas,
                                max_replicas |-> max_replicas]
                          ELSE auto_scalers[a]]
                  ELSE auto_scalers
            /\ response' = [op |-> "deploy", result |-> "200"]
    /\ UNCHANGED <<now, nticks, scale_waits, scaling_rules, watchdogs>>
    /\ UNCHANGED callVars
    /\ UNCHANGED roomVars

\* GET /instances?agent_id=: the registry after every instance of the agent
\* is refreshed
Refreshed(reg, agent, t) ==
    [k \in DOMAIN reg |->
        IF reg[k].agent_id = agent THEN UpdatedStatus(reg[k], t) ELSE reg[k]]

\* GET /instances?agent_id=: every listed instance is refreshed
get_agent_instances(agent) ==
    /\ agent_instances # <<>>
    /\ agent_instances' = Refreshed(agent_instances, agent, now)
    /\ UNCHANGED <<now, nticks, stop_tasks, scale_waits, monitors>>
    /\ UNCHANGED callVars
    /\ UNCHANGED roomVars
    /\ UNCHANGED <<scaleVars, watchdogs, response>>

\* one pass of the monitor loop of an agent
monitor_agent_instances(agent) ==
    /\ agent \in monitors
    /\ agent_instances' =
          [k \in DOMAIN agent_instances |->
              IF agent_instances[k].agent_id = agent
              THEN MonitoredStatus(agent_instances[k], now) ELSE agent_instances[k]]
    /\ UNCHANGED <<now, nticks, stop_tasks, scale_waits, monitors>>
    /\ UNCHANGED callVars
    /\ UNCHANGED roomVars
    /\ UNCHANGED <<scaleVars, watchdogs, response>>

\* the comparison of scale_agent with the equal case taken as a scale-down
ScaleActionNoEqual(target, current_count) ==
    IF target > current_count THEN "scale_up" ELSE "scale_down"

\* "scale_up" if target_replicas > current_count else "scale_down" if
\* target_replicas < current_count else "no_change"
ScaleAction(target, current_count) ==
    IF target > current_count THEN "scale_up"
    ELSE IF target < current_count THEN "scale_down"
    ELSE "no_change"

\* the negative targets a caller may send
NegativeTargets == (-MaxNegativeTarget)..(-1)

\* scale_agent with the test of the target left out
RejectedTargetNever(target) == FALSE

\* if target_replicas < 0: raise HTTPException(status_code=400, ...)
RejectedTarget(target) == target < 0

\* POST /scale/{agent_id}?target_replicas=, up to its first await (scale up)
\* or to its answer (scale down, no change).  The background tasks of the
\* answer run one after the other as soon as the answer is sent: the first
\* runs to its first sleep with the answer.
scale_agent(agent, target) ==
    /\ ~RejectedTarget(target) => agent \in ActiveAgents
    /\ LET current_count == Len(CurrentInstances(agent)) IN
         IF RejectedTarget(target)
         THEN /\ response' = [op |-> "scale", result |-> Surfaced("400")]
              /\ UNCHANGED <<agent_instances, stop_tasks, scale_waits>>
         ELSE IF ScaleAction(target, current_count) = "scale_up"
         THEN /\ scale_waits = {}
              /\ scale_waits' = {[agent_id |-> agent, target |-> target,
                                  scale_up_count |-> target - current_count]}
              /\ UNCHANGED <<agent_instances, stop_tasks, response>>
         ELSE IF ScaleAction(target, current_count) = "scale_down"
         THEN /\ Cardinality(stop_tasks) < MaxStopTasks
              /\ LET r == StartStop(agent_instances,
                                    InstancesToStop(agent, current_count - target))
                 IN /\ agent_instances' = r.reg
                    /\ stop_tasks' = stop_tasks \cup r.tasks
              /\ response' = [op |-> "scale", result |-> "scale_down"]
              /\ UNCHANGED scale_waits
         ELSE /\ response' = [op |-> "scale", result |-> "no_change"]
              /\ UNCHANGED <<agent_instances, stop_tasks, scale_waits>>
    /\ UNCHANGED <<now, nticks, monitors>>
    /\ UNCHANGED callVars
    /\ UNCHANGED roomVars
    /\ UNCHANGED <<scaleVars, watchdogs>>

\* scale_agent after AIAgent.get: the scale-up loop, then the answer
scale_up(w) ==
    /\ w \in scale_waits
    /\ agent_instances' =
          DeployLoop(agent_instances, w.agent_id, "scale", w.scale_up_count, 0)
    /\ Len(agent_instances') <= MaxInstances
    /\ stop_tasks' = Detach(stop_tasks, DeployedIds(w.agent_id, "scale", w.scale_up_count))
    /\ scale_waits' = scale_waits \ {w}
    /\ response' = [op |-> "scale", result |-> "scale_up"]
    /\ UNCHANGED <<now, nticks, monitors>>
    /\ UNCHANGED callVars
    /\ UNCHANGED roomVars
    /\ UNCHANGED <<scaleVars, watchdogs>>

\* a loop whose spawn of index k raises, with the failing instance registered
\* all the same
RegisteredOnFailureWithFailing(reg, agent, kind, k) ==
    DeployLoop(reg, agent, kind, k + 1, 0)

\* the registry when subprocess.Popen raises for index k of a loop: the
\* instances of the indexes before k are registered, the assignment for k is
\* never reached
RegisteredOnFailure(reg, agent, kind, k) == DeployLoop(reg, agent, kind, k, 0)

\* POST /deploy when the spawn of index k fails: deploy_agent_instance
\* re-raises, the handler answers 500 before it adds any background task
deploy_agent_spawn_fails(agent, replicas, auto_scale, k) ==
    /\ IsActive(agent)
    /\ CurrentInstances(agent) = <<>> \/ auto_scale
    /\ k \in 0..(replicas - 1)
    /\ agent_instances' = RegisteredOnFailure(agent_instances, agent, "deploy", k)
    /\ Len(agent_instances') <= MaxInstances
    /\ stop_tasks' = Detach(stop_tasks, DeployedIds(agent, "deploy", k))
    /\ response' = [op |-> "deploy", result |-> Surfaced("500")]
    /\ UNCHANGED <<now, nticks, scale_waits, monitors, scaleVars, watchdogs>>
    /\ UNCHANGED callVars
    /\ UNCHANGED roomVars

\* scale_agent after AIAgent.get when the spawn of index k fails
scale_up_spawn_fails(w, k) ==
    /\ w \in scale_waits
    /\ k \in 0..(w.scale_up_count - 1)
    /\ agent_instances' = RegisteredOnFailure(agent_instances, w.agent_id, "scale", k)
    /\ Len(agent_instances') <= MaxInstances
    /\ stop_tasks' = Detach(stop_tasks, DeployedIds(w.agent_id, "scale", k))
    /\ scale_waits' = scale_waits \ {w}
    /\ response' = [op |-> "scale", result |-> Surfaced("500")]
    /\ UNCHANGED <<now, nticks, monitors, scaleVars, watchdogs>>
    /\ UNCHANGED callVars
    /\ UNCHANGED roomVars

\* DELETE /instances/{instance_id}
stop_agent_instance_endpoint(id) ==
    /\ id \in RegisteredIds
    /\ Cardinality(stop_tasks) < MaxStopTasks
    /\ LET r == StartStop(agent_instances, <<id>>) IN
         /\ agent_instances' = r.reg
         /\ stop_tasks' = stop_tasks \cup r.tasks
    /\ UNCHANGED <<now, nticks, scale_waits, monitors>>
    /\ UNCHANGED callVars
    /\ UNCHANGED roomVars
    /\ UNCHANGED <<scaleVars, watchdogs, response>>

\* stop_agent_instance after sleep(5): SIGKILL, status = "stopped", sleep(10)
stop_kill(t) ==
    /\ t \in stop_tasks
    /\ t.pc = "term"
    /\ agent_instances' =
          IF t.attached
          THEN [agent_instances EXCEPT ![Position(t.instance_id)].status = "stopped",
                                       ![Position(t.instance_id)].process = "gone"]
          ELSE agent_instances
    /\ stop_tasks' = (stop_tasks \ {t}) \cup {[t EXCEPT !.pc = "grace"]}
    /\ UNCHANGED <<now, nticks, scale_waits, monitors>>
    /\ UNCHANGED callVars
    /\ UNCHANGED roomVars
    /\ UNCHANGED <<scaleVars, watchdogs, response>>

\* stop_agent_instance after sleep(10): the entry under the id is deleted; the
\* next background task of the same request, if any, starts
stop_evict(t) ==
    /\ t \in stop_tasks
    /\ t.pc = "grace"
    /\ LET reg == SelectSeq(agent_instances, LAMBDA x : x.instance_id # t.instance_id)
           r == StartStop(reg, t.queue)
       IN /\ agent_instances' = r.reg
          /\ stop_tasks' = Detach(stop_tasks \ {t}, {t.instance_id}) \cup r.tasks
    /\ UNCHANGED <<now, nticks, scale_waits, monitors>>
    /\ UNCHANGED callVars
    /\ UNCHANGED roomVars
    /\ UNCHANGED <<scaleVars, watchdogs, response>>

\* a worker process ends (on SIGTERM, or by itself)
process_exit(id) ==
    /\ id \in RegisteredIds
    /\ Instance(id).process = "alive"
    /\ agent_instances' = [agent_instances EXCEPT ![Position(id)].process = "gone"]
    /\ UNCHANGED <<now, nticks, stop_tasks, scale_waits, monitors>>
    /\ UNCHANGED callVars
    /\ UNCHANGED roomVars
    /\ UNCHANGED <<scaleVars, watchdogs, response>>

----------------------------------------------------------------------------
(***************************************************************************)
(* Auto-scaling (setup_auto_scaling).  A deploy with auto_scale starts one *)
(* loop per agent; every pass reads the agent's rule, its load and its     *)
(* running instances and may call scale_agent with a BackgroundTasks       *)
(* object of its own, which nobody runs.                                   *)
(***************************************************************************)
\* the rules a caller sets: scale up when the load is above 1 call per running
\* instance, down when it is below
ScalingRules ==
    { [ metric_type         |-> "call_queue",
        threshold_up        |-> 1,
        threshold_down      |-> 1,
        scale_up_replicas   |-> u,
        scale_down_replicas |-> 1 ] : u \in 1..MaxScaleStep }

\* how many ringing or answered calls of the agent the store reports
ActiveCallCounts == 0..MaxActiveCalls

\* len([inst ... if inst.agent_id == agent_id and inst.status == "running"])
RunningCount(agent) ==
    Len(SelectSeq(agent_instances,
                  LAMBDA x : x.agent_id = agent /\ x.status = "running"))

\* current_load = active_calls / len(current_instances) if current_instances
\* else 0, compared with a threshold
LoadAbove(active_calls, running, threshold) ==
    IF running = 0 THEN 0 > threshold ELSE active_calls > threshold * running

LoadBelow(active_calls, running, threshold) ==
    IF running = 0 THEN 0 < threshold ELSE active_calls < threshold * running

\* max(min_replicas, current_instances - rule.scale_down_replicas)
Max(a, b) == IF a >= b THEN a ELSE b

\* POST /auto-scale/rules/{agent_id}
set_scaling_rule(agent, rule) ==
    /\ agent \in ActiveAgents
    /\ scaling_rules' =
          [a \in DOMAIN scaling_rules \cup {agent} |->
              IF a = agent THEN rule ELSE scaling_rules[a]]
    /\ UNCHANGED <<now, nticks, auto_scalers, watchdogs, response>>
    /\ UNCHANGED callVars
    /\ UNCHANGED instVars
    /\ UNCHANGED roomVars

\* await scale_agent(agent_id, target, BackgroundTasks()): a scale-up suspends
\* in AIAgent.get as in the endpoint; the stops of a scale-down are added to
\* the BackgroundTasks object, which is dropped with the answer
ScaleCall(branch, agent, target) ==
    LET current_count == Len(CurrentInstances(agent)) IN
    IF target > current_count
    THEN /\ scale_waits = {}
         /\ scale_waits' = {[agent_id |-> agent, target |-> target,
                             scale_up_count |-> target - current_count]}
         /\ response' = [op |-> branch, result |-> "scale_up"]
    ELSE IF target < current_count
    THEN /\ response' = [op |-> branch, result |-> "scale_down"]
         /\ UNCHANGED scale_waits
    ELSE /\ response' = [op |-> branch, result |-> "no_change"]
         /\ UNCHANGED scale_waits

\* one pass of the setup_auto_scaling loop of an agent; active_calls is what
\* get_agent_stats counts in the store
auto_scale_tick(agent, active_calls) ==
    /\ agent \in DOMAIN auto_scalers
    /\ agent \in DOMAIN scaling_rules
    /\ LET rule == scaling_rules[agent]
           range == auto_scalers[agent]
           current_instances == RunningCount(agent)
       IN IF /\ rule.metric_type = "call_queue"
             /\ LoadAbove(active_calls, current_instances, rule.threshold_up)
          THEN IF current_instances < range.max_replicas
               THEN ScaleCall("auto_scale_up", agent,
                              current_instances + rule.scale_up_replicas)
               ELSE UNCHANGED <<scale_waits, response>>
          ELSE IF /\ rule.metric_type = "call_queue"
                  /\ LoadBelow(active_calls, current_instances, rule.threshold_down)
          THEN IF current_instances > range.min_replicas
               THEN ScaleCall("auto_scale_down", agent,
                              Max(range.min_replicas,
                                  current_instances - rule.scale_down_replicas))
               ELSE UNCHANGED <<scale_waits, response>>
          ELSE UNCHANGED <<scale_waits, response>>
    /\ UNCHANGED <<now, nticks, agent_instances, stop_tasks, monitors>>
    /\ UNCHANGED <<scaleVars, watchdogs>>
    /\ UNCHANGED callVars
    /\ UNCHANGED roomVars

----------------------------------------------------------------------------
(***************************************************************************)
(* SIP calls and the no-answer watchdog (api/routes/sip_integration.py).   *)
(* watchdogs[c] is the monitor_sip_call coroutine of call c: where it is   *)
(* suspended (pc), its wait_time in seconds, and the document its last     *)
(* Call.get returned.                                                      *)
(***************************************************************************)
MaxWaitSeconds == 60
PollSeconds == 5

\* call.call_status = "no_answer"; call.call_outcome = "No answer";
\* call.ended_at = datetime.utcnow()
NoAnswerDoc(doc, t) ==
    [doc EXCEPT !.call_status = "no_answer",
                !.call_outcome = Some("No answer"),
                !.ended_at = Some(t)]

\* POST /sip/call/initiate, to its answer: the record is saved as ringing and
\* monitor_sip_call is scheduled
initiate_sip_call(c, agent, room) ==
    /\ c \notin DOMAIN calls
    /\ IsActive(agent)
    /\ calls' = calls @@ (c :> StartDoc(NewCall(now), room, Some("customer"), now))
    /\ last' = last @@ (c :> [op |-> "initiate_sip", arg |-> Some(room), at |-> now,
                              from |-> "initiating"])
    /\ UNCHANGED initiations
    /\ watchdogs' = watchdogs @@ (c :> [pc |-> "loop", wait_time |-> 0, doc |-> None])
    /\ UNCHANGED <<now, nticks, scaleVars, response>>
    /\ UNCHANGED instVars
    /\ UNCHANGED roomVars

\* one turn of the while loop: Call.get, the break test, asyncio.sleep(5),
\* wait_time += 5.  The five seconds pass while the coroutine sleeps.
watchdog_poll(c) ==
    /\ c \in DOMAIN watchdogs
    /\ watchdogs[c].pc = "loop"
    /\ IF c \notin DOMAIN calls
          \/ calls[c].call_status \in {"answered", "failed", "completed"}
       THEN /\ watchdogs' = [watchdogs EXCEPT ![c].pc = "done"]
            /\ UNCHANGED now
       ELSE /\ watchdogs' =
                 [watchdogs EXCEPT
                    ![c].wait_time = @ + PollSeconds,
                    ![c].pc = IF watchdogs[c].wait_time + PollSeconds < MaxWaitSeconds
                              THEN "loop" ELSE "final"]
            /\ now' = now + PollSeconds * TicksPerSecond
    /\ UNCHANGED <<nticks, scaleVars, response>>
    /\ UNCHANGED callVars
    /\ UNCHANGED instVars
    /\ UNCHANGED roomVars

\* if wait_time >= max_wait: call = await Call.get(call_id); the fields of a
\* ringing call are set and the coroutine suspends in call.save()
watchdog_final(c) ==
    /\ c \in DOMAIN watchdogs
    /\ watchdogs[c].pc = "final"
    /\ watchdogs' =
          IF c \in DOMAIN calls /\ calls[c].call_status = "ringing"
          THEN [watchdogs EXCEPT ![c].pc = "save",
                                 ![c].doc = Some(NoAnswerDoc(calls[c], now))]
          ELSE [watchdogs EXCEPT ![c].pc = "done"]
    /\ UNCHANGED <<now, nticks, scaleVars, response>>
    /\ UNCHANGED callVars
    /\ UNCHANGED instVars
    /\ UNCHANGED roomVars

\* await call.save(): the document of the final Call.get is written whole
watchdog_save(c) ==
    /\ c \in DOMAIN watchdogs
    /\ watchdogs[c].pc = "save"
    /\ Save("no_answer", c, None, Get(watchdogs[c].doc))
    /\ watchdogs' = [watchdogs EXCEPT ![c].pc = "done", ![c].doc = None]
    /\ UNCHANGED <<now, nticks, scaleVars, response>>
    /\ UNCHANGED instVars
    /\ UNCHANGED roomVars

----------------------------------------------------------------------------
(***************************************************************************)
(* Outbound call initiation (api/routes/calls.py initiate_outbound_call,   *)
(* api/routes/sip_integration.py initiate_sip_call, agent_worker.py        *)
(* AgentWorkerManager.initiate_outbound_call).  The handler holds a copy   *)
(* of the call document while it awaits the gateway (create_room, then     *)
(* create_sip_participant); initiations[c] is that suspended handler.      *)
(***************************************************************************)
\* which gateway request raised: str(e) is the detail
GatewayErrors == {"room", "sip"}

\* f"Failed to initiate: {str(e)}" (calls.py, agent_worker.py) and
\* f"Initiation failed: {str(e)}" (sip_integration.py)
InitiateFailedText(via, e) ==
    IF via = "sip"
    THEN CASE e = "room" -> "Initiation failed: room"
           [] e = "sip"  -> "Initiation failed: sip"
    ELSE CASE e = "room" -> "Failed to initiate: room"
           [] e = "sip"  -> "Failed to initiate: sip"

\* the except branch with the status assignment left out
InitiateFailDocKeepsStatus(via, doc, e, t) ==
    [doc EXCEPT !.call_outcome = Some(InitiateFailedText(via, e)),
                !.ended_at = IF via = "calls" THEN Some(doc.started_at)
                             ELSE IF via = "sip" THEN Some(t) ELSE @]

\* the except branch: failed, the outcome text, and ended_at (started_at in
\* calls.py, utcnow in sip_integration.py, untouched in agent_worker.py)
InitiateFailDoc(via, doc, e, t) ==
    [doc EXCEPT !.call_status = "failed",
                !.call_outcome = Some(InitiateFailedText(via, e)),
                !.ended_at = IF via = "calls" THEN Some(doc.started_at)
                             ELSE IF via = "sip" THEN Some(t) ELSE @]

\* call.room_name = ...; call.participant_id = ...; call.call_status = "ringing"
RingingDoc(doc, room, pid) ==
    [doc EXCEPT !.call_status = "ringing",
                !.room_name = Some(room),
                !.participant_id = Some(pid)]

\* POST /calls/initiate-outbound up to create_room: the agent is verified and
\* create_call saves the record
initiate_outbound_call(c, agent) ==
    /\ c \notin DOMAIN calls
    /\ IsActive(agent)
    /\ calls' = calls @@ (c :> NewCall(now))
    /\ last' = last @@ (c :> [op |-> "create", arg |-> None, at |-> now,
                              from |-> "initiated"])
    /\ initiations' = initiations @@ (c :> [via |-> "calls", doc |-> NewCall(now)])
    /\ UNCHANGED <<now, nticks, scaleVars, watchdogs, response>>
    /\ UNCHANGED instVars
    /\ UNCHANGED roomVars

\* POST /sip/call/initiate up to create_room: the record is saved with
\* call_status "initiating"
initiate_sip_call_begin(c, agent) ==
    /\ c \notin DOMAIN calls
    /\ IsActive(agent)
    /\ calls' = calls @@ (c :> [NewCall(now) EXCEPT !.call_status = "initiating"])
    /\ last' = last @@ (c :> [op |-> "create", arg |-> None, at |-> now,
                              from |-> "initiating"])
    /\ initiations' = initiations @@
          (c :> [via |-> "sip",
                 doc |-> [NewCall(now) EXCEPT !.call_status = "initiating"]])
    /\ UNCHANGED <<now, nticks, scaleVars, watchdogs, response>>
    /\ UNCHANGED instVars
    /\ UNCHANGED roomVars

\* PUT /calls/{id} with call_status in the body
update_call(c, status) ==
    Write("update", c, Some(status), [calls[c] EXCEPT !.call_status = status])

\* start_campaign_agents: AgentWorkerManager.initiate_outbound_call on a call
\* its query found pending, up to create_room
worker_initiate_outbound_call(c) ==
    /\ c \in DOMAIN calls
    /\ c \notin DOMAIN initiations
    /\ calls[c].call_status = "pending"
    /\ initiations' = initiations @@ (c :> [via |-> "worker", doc |-> calls[c]])
    /\ UNCHANGED <<now, nticks, calls, last, scaleVars, watchdogs, response>>
    /\ UNCHANGED instVars
    /\ UNCHANGED roomVars

\* the handler's copy is dropped when the handler returns
Returned(c) == [x \in DOMAIN initiations \ {c} |-> initiations[x]]

\* both gateway requests succeed: the copy is saved as ringing; the SIP
\* endpoint schedules monitor_sip_call
gateway_succeeds(c, room) ==
    /\ c \in DOMAIN initiations
    /\ c \in DOMAIN calls
    /\ calls' = [calls EXCEPT ![c] = RingingDoc(initiations[c].doc, room, "caller")]
    /\ last' = [last EXCEPT ![c] = [op |-> "initiated", arg |-> Some(room), at |-> now,
                                    from |-> calls[c].call_status]]
    /\ initiations' = Returned(c)
    /\ watchdogs' = IF initiations[c].via = "sip"
                    THEN watchdogs @@ (c :> [pc |-> "loop", wait_time |-> 0, doc |-> None])
                    ELSE watchdogs
    /\ UNCHANGED <<now, nticks, scaleVars, response>>
    /\ UNCHANGED instVars
    /\ UNCHANGED roomVars

\* create_room or create_sip_participant raises: the except branch saves the
\* copy as failed
gateway_fails(c, e) ==
    /\ c \in DOMAIN initiations
    /\ c \in DOMAIN calls
    /\ calls' = [calls EXCEPT
                   ![c] = InitiateFailDoc(initiations[c].via, initiations[c].doc, e, now)]
    /\ last' = [last EXCEPT ![c] = [op |-> "initiate_failed", arg |-> Some(e), at |-> now,
                                    from |-> calls[c].call_status]]
    /\ initiations' = Returned(c)
    /\ UNCHANGED <<now, nticks, scaleVars, watchdogs, response>>
    /\ UNCHANGED instVars
    /\ UNCHANGED roomVars

----------------------------------------------------------------------------
(***************************************************************************)
(* Job routing and room cleanup (agent_worker.py, AgentWorkerManager).     *)
(*                                                                         *)
(* active_agents maps a room name to its routing entry.  Every room event  *)
(* is handled in a task of its own (asyncio.create_task), so several       *)
(* cleanup_agent_instance coroutines can be suspended at once: cleanups    *)
(* holds them in creation order, each with the documents its query gave.   *)
(***************************************************************************)
OptCalls == {None} \cup {Some(c) : c \in CallIds}

\* update_call_status(call_id, "agent_assigned", room_name)
AssignedDoc(doc, room) ==
    [doc EXCEPT !.call_status = "agent_assigned", !.room_name = Some(room)]

\* cleanup_agent_instance: what the loop writes to a call its query returned
CleanupDoc(doc, t) ==
    [doc EXCEPT !.call_status = "completed",
                !.ended_at = Some(t),
                !.duration_seconds =
                    IF IsSome(doc.answered_at)
                    THEN Some(IntSeconds(t - Get(doc.answered_at)))
                    ELSE @]

\* Call.find(Call.room_name == room_name, Call.call_status == "answered")
RECURSIVE FoundCalls(_, _)
FoundCalls(ids, room) ==
    IF ids = {} THEN <<>>
    ELSE LET c == CHOOSE x \in ids : TRUE
             rest == FoundCalls(ids \ {c}, room)
         IN IF calls[c].room_name = Some(room) /\ calls[c].call_status = "answered"
            THEN <<[id |-> c, doc |-> calls[c]]>> \o rest
            ELSE rest

\* del self.active_agents[room_name]
Evict(table, room) == [r \in DOMAIN table \ {room} |-> table[r]]

RemoveAt(s, i) == SubSeq(s, 1, i - 1) \o SubSeq(s, i + 1, Len(s))

\* the agent_id a room's metadata may carry
OptAgents == {None} \cup {Some(a) : a \in AgentIds}

\* route_job answering False to a job without agent_id
DefaultAgentRejected == "false"

\* else: ... return True  # Allow default agent to handle
DefaultAgentHandling == "true"

\* route_job, for a room whose metadata may name an agent and a call
route_job(room, agent, call) ==
    /\ IF ~IsSome(agent)
       THEN /\ response' = [op |-> "route_job", result |-> DefaultAgentHandling]
            /\ UNCHANGED <<calls, last, initiations, active_agents>>
       ELSE IF ~IsActive(Get(agent))
       THEN \* return False
            /\ response' = [op |-> "route_job", result |-> "false"]
            /\ UNCHANGED <<calls, last, initiations, active_agents>>
       ELSE /\ IF IsSome(call) /\ Get(call) \in DOMAIN calls
               THEN Save("route_job", Get(call), Some(room),
                         AssignedDoc(calls[Get(call)], room))
               ELSE UNCHANGED callVars
            /\ active_agents' =
                  [r \in DOMAIN active_agents \cup {room} |->
                      IF r = room
                      THEN [agent_id |-> Get(agent), participant_count |-> 0,
                            status |-> "active"]
                      ELSE active_agents[r]]
            /\ response' = [op |-> "route_job", result |-> "true"]
    /\ UNCHANGED <<now, nticks, cleanups>>
    /\ UNCHANGED instVars
    /\ UNCHANGED <<scaleVars, watchdogs>>

\* handle_room_event(room, "participant_joined")
participant_joined(room) ==
    /\ room \in DOMAIN active_agents
    /\ active_agents[room].participant_count < MaxParticipants
    /\ active_agents' = [active_agents EXCEPT ![room].participant_count = @ + 1]
    /\ UNCHANGED <<now, nticks, cleanups>>
    /\ UNCHANGED callVars
    /\ UNCHANGED instVars
    /\ UNCHANGED <<scaleVars, watchdogs, response>>

\* handle_room_event(room, "participant_left"), up to the query of
\* cleanup_agent_instance when the count falls to one or less
participant_left(room) ==
    /\ room \in DOMAIN active_agents
    /\ LET count == active_agents[room].participant_count - 1 IN
         IF count <= 1
         THEN /\ Len(cleanups) < MaxCleanups
              /\ active_agents' = [active_agents EXCEPT
                                      ![room].participant_count = count,
                                      ![room].status = "stopping"]
              /\ cleanups' = Append(cleanups, [room |-> room, pc |-> "find", docs |-> <<>>])
         ELSE /\ active_agents' = [active_agents EXCEPT
                                      ![room].participant_count = count]
              /\ UNCHANGED cleanups
    /\ UNCHANGED <<now, nticks>>
    /\ UNCHANGED callVars
    /\ UNCHANGED instVars
    /\ UNCHANGED <<scaleVars, watchdogs, response>>

\* the store answers the query of cleanup i
cleanup_find(i) ==
    /\ i \in DOMAIN cleanups
    /\ cleanups[i].pc = "find"
    /\ cleanups' = [cleanups EXCEPT
                       ![i].pc = "save",
                       ![i].docs = FoundCalls(DOMAIN calls, cleanups[i].room)]
    /\ UNCHANGED <<now, nticks, active_agents>>
    /\ UNCHANGED callVars
    /\ UNCHANGED instVars
    /\ UNCHANGED <<scaleVars, watchdogs, response>>

\* cleanup i resumes with calls left to update: the next one is completed and
\* saved whole
cleanup_save(i) ==
    /\ i \in DOMAIN cleanups
    /\ cleanups[i].pc = "save"
    /\ cleanups[i].docs # <<>>
    /\ LET found == Head(cleanups[i].docs) IN
         Save("cleanup", found.id, None, CleanupDoc(found.doc, now))
    /\ cleanups' = [cleanups EXCEPT ![i].docs = Tail(@)]
    /\ UNCHANGED <<now, nticks, active_agents>>
    /\ UNCHANGED instVars
    /\ UNCHANGED <<scaleVars, watchdogs, response>>

\* cleanup i resumes with no call left: the routing entry is deleted.  When
\* the entry is already gone the del raises KeyError, which is logged.
cleanup_del(i) ==
    /\ i \in DOMAIN cleanups
    /\ cleanups[i].pc = "save"
    /\ cleanups[i].docs = <<>>
    /\ active_agents' = Evict(active_agents, cleanups[i].room)
    /\ cleanups' = RemoveAt(cleanups, i)
    /\ UNCHANGED <<now, nticks>>
    /\ UNCHANGED callVars
    /\ UNCHANGED instVars
    /\ UNCHANGED <<scaleVars, watchdogs, response>>

\* the clock advances by d ticks.  A sleeping stop and a coroutine waiting on
\* the store resume within TermWaitSeconds, so none is still suspended after
\* a longer step.
ClockSteps ==
    { 1,
      StartingGraceSeconds * TicksPerSecond,
      (StartingGraceSeconds + 1) * TicksPerSecond,
      (HeartbeatTimeoutSeconds + 1) * TicksPerSecond }

advance_clock(d) ==
    /\ nticks < MaxJumps
    /\ d > 0
    /\ (d >= TermWaitSeconds * TicksPerSecond)
          => (stop_tasks = {} /\ scale_waits = {} /\ cleanups = <<>>)
    /\ now' = now + d
    /\ nticks' = nticks + 1
    /\ UNCHANGED callVars
    /\ UNCHANGED instVars
    /\ UNCHANGED roomVars
    /\ UNCHANGED <<scaleVars, watchdogs, response>>

----------------------------------------------------------------------------
Init ==
    /\ now = 0
    /\ nticks = 0
    /\ calls = <<>>
    /\ last = <<>>
    /\ initiations = <<>>
    /\ agent_instances = <<>>
    /\ stop_tasks = {}
    /\ scale_waits = {}
    /\ monitors = {}
    /\ active_agents = <<>>
    /\ cleanups = <<>>
    /\ scaling_rules = <<>>
    /\ auto_scalers = <<>>
    /\ watchdogs = <<>>
    /\ response = [op |-> "none", result |-> "none"]

NextCalls ==
    \/ \E c \in CallIds : create_call(c)
    \/ \E c \in CallIds, r \in RoomNames : start_call(c, r)
    \/ \E c \in CallIds : answer_call(c)
    \/ \E c \in CallIds, o \in OptOutcomes : end_call(c, o)
    \/ \E c \in CallIds, r \in OptReasons : fail_call(c, r)
    \/ \E c \in CallIds, cust \in BOOLEAN : handle_participant_joined(c, cust)
    \/ \E c \in CallIds, cust \in BOOLEAN : handle_participant_left(c, cust)
    \/ \E c \in CallIds : handle_room_finished(c)
    \/ Tick

SpecCalls == Init /\ [][NextCalls]_vars

\* a SIP call, its watchdog, the webhook handlers and the call endpoints
NextWatchdog ==
    \/ \E c \in CallIds, a \in AgentIds, r \in RoomNames : initiate_sip_call(c, a, r)
    \/ \E c \in CallIds : watchdog_poll(c)
    \/ \E c \in CallIds : watchdog_final(c)
    \/ \E c \in CallIds : watchdog_save(c)
    \/ \E c \in CallIds : answer_call(c)
    \/ \E c \in CallIds, o \in OptOutcomes : end_call(c, o)
    \/ \E c \in CallIds, r \in OptReasons : fail_call(c, r)
    \/ \E c \in CallIds, cust \in BOOLEAN : handle_participant_joined(c, cust)
    \/ \E c \in CallIds, cust \in BOOLEAN : handle_participant_left(c, cust)
    \/ \E c \in CallIds : handle_room_finished(c)

SpecWatchdog == Init /\ [][NextWatchdog]_vars

\* outbound initiation through the gateway, with the call endpoints and
\* webhooks that may run while the handler is suspended
NextInitiate ==
    \/ \E c \in CallIds, a \in AgentIds : initiate_outbound_call(c, a)
    \/ \E c \in CallIds, a \in AgentIds : initiate_sip_call_begin(c, a)
    \/ \E c \in CallIds : update_call(c, "pending")
    \/ \E c \in CallIds : worker_initiate_outbound_call(c)
    \/ \E c \in CallIds, r \in RoomNames : gateway_succeeds(c, r)
    \/ \E c \in CallIds, e \in GatewayErrors : gateway_fails(c, e)
    \/ \E c \in CallIds : answer_call(c)
    \/ \E c \in CallIds, o \in OptOutcomes : end_call(c, o)
    \/ \E c \in CallIds : handle_room_finished(c)
    \/ Tick

SpecInitiate == Init /\ [][NextInitiate]_vars

\* job routing, room events and room cleanup over the call store
NextRooms ==
    \/ \E c \in CallIds : create_call(c)
    \/ \E c \in CallIds : answer_call(c)
    \/ \E r \in RoomNames, a \in OptAgents, c \in OptCalls : route_job(r, a, c)
    \/ \E r \in RoomNames : participant_joined(r)
    \/ \E r \in RoomNames : participant_left(r)
    \/ \E i \in DOMAIN cleanups : cleanup_find(i)
    \/ \E i \in DOMAIN cleanups : cleanup_save(i)
    \/ \E i \in DOMAIN cleanups : cleanup_del(i)
    \/ \E d \in ClockSteps : advance_clock(d)

SpecRooms == Init /\ [][NextRooms]_vars

\* deploys and scale requests whose spawns may fail
NextSpawn ==
    \/ \E a \in ActiveAgents, n \in 1..MaxReplicas : deploy_agent(a, n, TRUE)
    \/ \E a \in ActiveAgents, n \in 1..MaxReplicas, auto \in BOOLEAN,
          k \in 0..(MaxReplicas - 1) : deploy_agent_spawn_fails(a, n, auto, k)
    \/ \E a \in AgentIds, n \in 0..MaxInstances : scale_agent(a, n)
    \/ \E w \in scale_waits : scale_up(w)
    \/ \E w \in scale_waits, k \in 0..(MaxInstances - 1) : scale_up_spawn_fails(w, k)
    \/ \E t \in stop_tasks : stop_kill(t)
    \/ \E t \in stop_tasks : stop_evict(t)
    \/ advance_clock(1)

SpecSpawn == Init /\ [][NextSpawn]_vars

\* the auto-scaling loop over auto_scale deploys
NextAutoScale ==
    \/ \E a \in AgentIds, n \in 1..MaxReplicas : deploy_agent(a, n, TRUE)
    \/ \E a \in AgentIds, r \in ScalingRules : set_scaling_rule(a, r)
    \/ \E a \in AgentIds : get_agent_instances(a)
    \/ \E a \in AgentIds, n \in ActiveCallCounts : auto_scale_tick(a, n)
    \/ \E a \in AgentIds, n \in NegativeTargets : scale_agent(a, n)
    \/ \E w \in scale_waits : scale_up(w)
    \/ \E d \in ClockSteps : advance_clock(d)

SpecAutoScale == Init /\ [][NextAutoScale]_vars

\* the loop passes every 30 s and a suspended scale_agent is resumed by the
\* event loop
SpecAutoScaleFair ==
    /\ Init
    /\ [][NextAutoScale]_vars
    /\ WF_vars(\E w \in scale_waits : scale_up(w))
    /\ WF_vars(\E a \in AgentIds, n \in ActiveCallCounts : auto_scale_tick(a, n))

\* the supervisor: deploys that start a monitor loop, health polling,
\* monitoring, stop
NextSupervisor ==
    \/ \E a \in ActiveAgents, n \in 1..MaxReplicas : deploy_agent(a, n, FALSE)
    \/ \E a \in AgentIds : get_agent_instances(a)
    \/ \E a \in AgentIds : monitor_agent_instances(a)
    \/ \E id \in RegisteredIds : stop_agent_instance_endpoint(id)
    \/ \E t \in stop_tasks : stop_kill(t)
    \/ \E t \in stop_tasks : stop_evict(t)
    \/ \E id \in RegisteredIds : process_exit(id)
    \/ \E d \in ClockSteps : advance_clock(d)

SpecSupervisor == Init /\ [][NextSupervisor]_vars

\* the scaling endpoint with its background stops, over auto_scale deploys
NextScaling ==
    \/ \E a \in ActiveAgents, n \in 1..MaxReplicas : deploy_agent(a, n, TRUE)
    \/ \E a \in AgentIds : get_agent_instances(a)
    \/ \E a \in AgentIds, n \in 0..MaxInstances : scale_agent(a, n)
    \/ \E w \in scale_waits : scale_up(w)
    \/ \E t \in stop_tasks : stop_kill(t)
    \/ \E t \in stop_tasks : stop_evict(t)
    \/ \E d \in ClockSteps : advance_clock(d)

SpecScaling == Init /\ [][NextScaling]_vars

----------------------------------------------------------------------------
(***************************************************************************)
(* Properties of the call state machine.                                   *)
(***************************************************************************)

\* C1: once a call's status is completed, failed, no_answer or transferred,
\* no handler changes that status or overwrites the recorded outcome.
C1_TerminalStatusIsKept ==
    [][\A c \in DOMAIN calls :
          calls[c].call_status \in TerminalStatuses
          => /\ calls'[c].call_status = calls[c].call_status
             /\ calls'[c].call_outcome = calls[c].call_outcome]_vars

\* C9: a second end() on a call that an earlier end() completed is a no-op:
\* status, ended_at, duration_seconds and call_outcome stay as the first
\* end() set them.
C9_SecondEndIsNoOp ==
    [][\A c \in DOMAIN calls, o \in OptOutcomes :
          (/\ last[c].op = "end"
           /\ calls[c].call_status = "completed"
           /\ end_call(c, o))
          => calls'[c] = calls[c]]_vars

----------------------------------------------------------------------------
(***************************************************************************)
(* Properties of the instance registry, seen as the API shows it: by       *)
(* instance id.                                                            *)
(***************************************************************************)

\* C2: no step moves the status shown under an instance id backward: an id
\* that is running is never starting after a step, and an id that is stopping
\* is never running or starting after a step.
C2_NoBackwardStatus ==
    [][\A id \in RegisteredIds :
          id \in RegisteredIds'
          => /\ Instance(id).status = "running"
                  => Instance(id)'.status # "starting"
             /\ Instance(id).status = "stopping"
                  => Instance(id)'.status \notin {"running", "starting"}]_vars

\* C3: a health poll, a monitor pass or a stop call leaves the status of an
\* instance id that is stopped or error as it is.
C3_StoppedAndErrorAreTerminal ==
    [][\A id \in RegisteredIds :
          (/\ Instance(id).status \in {"stopped", "error"}
           /\ id \in RegisteredIds'
           /\ \/ \E a \in AgentIds : get_agent_instances(a)
              \/ \E a \in AgentIds : monitor_agent_instances(a)
              \/ \E i \in RegisteredIds : stop_agent_instance_endpoint(i))
          => Instance(id)'.status = Instance(id).status]_vars

\* C4: when scale(agent, n) answers, a listing of the agent's instances taken
\* at once holds exactly n instances that are starting or running.
C4_ScaleReachesTarget ==
    [][\A a \in AgentIds, n \in 0..MaxInstances :
          (\/ scale_agent(a, n) /\ n <= Len(CurrentInstances(a))
           \/ \E w \in scale_waits :
                 w.agent_id = a /\ w.target = n /\ scale_up(w))
          => Cardinality(
               {k \in DOMAIN agent_instances' :
                   LET x == Refreshed(agent_instances', a, now')[k]
                   IN x.agent_id = a /\ x.status \in {"starting", "running"}}) = n]_vars

\* C5: a scale-down by k selects for stopping exactly k of the agent's
\* starting or running instances, and none of them started later than an
\* instance it keeps.
C5_OldestStoppedFirst ==
    [][\A a \in AgentIds, n \in 0..MaxInstances :
          (scale_agent(a, n) /\ n < Len(CurrentInstances(a)))
          => LET cur == CurrentInstances(a) IN
             \E t \in stop_tasks' \ stop_tasks :
                LET stopped == {t.instance_id} \cup {t.queue[j] : j \in DOMAIN t.queue}
                IN /\ Cardinality(stopped) = Len(cur) - n
                   /\ stopped \subseteq {cur[j].instance_id : j \in DOMAIN cur}
                   /\ \A x, y \in DOMAIN cur :
                         (cur[x].instance_id \in stopped /\ cur[y].instance_id \notin stopped)
                         => cur[x].started_at <= cur[y].started_at]_vars

\* C5 witness: a scale-down is under way that stops an instance while it
\* keeps a younger one that comes earlier in the registry.
C5_Witness ==
    \E t \in stop_tasks :
        /\ t.attached
        /\ t.pc = "term"
        /\ \E k \in DOMAIN agent_instances :
              /\ k < Position(t.instance_id)
              /\ agent_instances[k].agent_id = Instance(t.instance_id).agent_id
              /\ agent_instances[k].status \in {"starting", "running"}
              /\ agent_instances[k].started_at > Instance(t.instance_id).started_at

\* C7: a health poll or a monitor pass never moves an instance that a stop
\* call has set to stopping back to starting or running, and never moves an
\* instance that the stop call has set to stopped to an earlier status.
C7_PollDoesNotUndoStop ==
    [][\A t \in stop_tasks :
          (/\ t.attached
           /\ \/ \E a \in AgentIds : get_agent_instances(a)
              \/ \E a \in AgentIds : monitor_agent_instances(a))
          => /\ (t.pc = "term" /\ Instance(t.instance_id).status = "stopping")
                  => Instance(t.instance_id)'.status \notin {"starting", "running"}
             /\ (t.pc = "grace" /\ Instance(t.instance_id).status = "stopped")
                  => Instance(t.instance_id)'.status
                        \notin {"starting", "running", "stopping"}]_vars

\* C7 witness: a health poll has run on a live instance, deployed more than
\* StartingGraceSeconds ago, after a stop call set it to stopping and before
\* the stop call resumed.
C7_Witness ==
    \E t \in stop_tasks :
        /\ t.attached
        /\ t.pc = "term"
        /\ Instance(t.instance_id).status = "stopping"
        /\ Instance(t.instance_id).process = "alive"
        /\ Instance(t.instance_id).last_heartbeat > t.began
        /\ Instance(t.instance_id).last_heartbeat - Instance(t.instance_id).started_at
              > StartingGraceSeconds * TicksPerSecond

\* C8: a health poll of a running instance whose heartbeat is more than
\* HeartbeatTimeoutSeconds old sets its status to error.  The instances are
\* those of an agent without a monitor loop, which only health polls refresh.
C8_StaleHeartbeatBecomesError ==
    [][\A a \in AgentIds \ monitors, k \in DOMAIN agent_instances :
          (/\ get_agent_instances(a)
           /\ agent_instances[k].agent_id = a
           /\ agent_instances[k].status = "running"
           /\ now - agent_instances[k].last_heartbeat
                 > HeartbeatTimeoutSeconds * TicksPerSecond)
          => agent_instances'[k].status = "error"]_vars

----------------------------------------------------------------------------
(***************************************************************************)
(* Properties of room cleanup.                                             *)
(***************************************************************************)

\* C6: room cleanup writes a call once: it never writes a call that is
\* completed already, whatever the order in which the tasks of two
\* participant_left events run.
C6_CleanupWritesOnce ==
    \A c \in DOMAIN calls :
        last[c].op = "cleanup" => last[c].from # "completed"

----------------------------------------------------------------------------
(***************************************************************************)
(* Properties of job routing.                                              *)
(***************************************************************************)

\* C11: routing a job whose room metadata names an agent that is missing or
\* inactive returns failure, leaves the routing table as it is and changes no
\* call record.
C11_InactiveAgentIsNotRouted ==
    [][\A r \in RoomNames, a \in AgentIds \ ActiveAgents, c \in OptCalls :
          route_job(r, Some(a), c)
          => /\ response'.result = "false"
             /\ active_agents' = active_agents
             /\ calls' = calls]_vars

\* C11 witness: a routing attempt has failed while a call is on record and
\* the routing table holds no entry.
C11_Witness ==
    /\ response = [op |-> "route_job", result |-> "false"]
    /\ \E c \in DOMAIN calls : calls[c].call_status = "initiated"
    /\ active_agents = <<>>

----------------------------------------------------------------------------
(***************************************************************************)
(* Properties of deploy and of health polling.                             *)
(***************************************************************************)

\* C12: a deploy of n replicas that succeeds adds exactly n entries to the
\* registry, and every instance id it wrote is registered as starting with
\* its heartbeat at the time of the deploy.
C12_DeployAddsReplicas ==
    [][\A a \in ActiveAgents, n \in 1..MaxReplicas, auto \in BOOLEAN :
          (/\ deploy_agent(a, n, auto)
           /\ CurrentInstances(a) = <<>> \/ auto)
          => /\ Cardinality(RegisteredIds') = Cardinality(RegisteredIds) + n
             /\ \A id \in DeployedIds(a, "deploy", n) :
                   /\ id \in RegisteredIds'
                   /\ Instance(id)'.status = "starting"
                   /\ Instance(id)'.last_heartbeat = now]_vars

\* C13: an instance becomes running only by a health poll or a monitor pass
\* that finds it starting, with a live process, more than
\* StartingGraceSeconds after started_at; such a poll always promotes it, and
\* a poll at or before StartingGraceSeconds never does.
C13_PromotionAfterGrace ==
    [][\A id \in RegisteredIds :
          id \in RegisteredIds'
          => LET x == Instance(id)
                 polled == \/ get_agent_instances(x.agent_id)
                           \/ monitor_agent_instances(x.agent_id)
                 due == /\ x.status = "starting"
                        /\ x.process = "alive"
                        /\ now - x.started_at > StartingGraceSeconds * TicksPerSecond
             IN /\ (x.status # "running" /\ Instance(id)'.status = "running")
                     => (polled /\ due)
                /\ (polled /\ due) => Instance(id)'.status = "running"
                /\ (polled /\ x.status = "starting" /\ x.process = "alive" /\ ~due)
                     => Instance(id)'.status = "starting"]_vars

\* C13 witness: an instance is running whose last poll came one tick after
\* StartingGraceSeconds had passed since it started: the poll that promoted it.
C13_Witness ==
    \E k \in DOMAIN agent_instances :
        /\ agent_instances[k].status = "running"
        /\ agent_instances[k].process = "alive"
        /\ agent_instances[k].last_heartbeat - agent_instances[k].started_at
              = StartingGraceSeconds * TicksPerSecond + 1

----------------------------------------------------------------------------
(***************************************************************************)
(* Properties of the auto-scaling loop.                                    *)
(***************************************************************************)

\* C14: no pass of the auto-scaling loop issues a scale-up whose target is
\* above max_replicas or below min_replicas of the deployment.
C14_AutoScaleWithinRange ==
    [][\A a \in AgentIds, n \in ActiveCallCounts :
          auto_scale_tick(a, n)
          => \A w \in scale_waits' :
                w.agent_id = a
                => /\ w.target <= auto_scalers[a].max_replicas
                   /\ w.target >= auto_scalers[a].min_replicas]_vars

\* C15: after a pass of the auto-scaling loop that found the load below
\* threshold_down and more running instances than min_replicas, and asked
\* scale_agent for fewer instances, an instance eventually reaches stopped.
C15_AutoScaleDownStops ==
    (response = [op |-> "auto_scale_down", result |-> "scale_down"])
    ~> (\E k \in DOMAIN agent_instances : agent_instances[k].status = "stopped")

----------------------------------------------------------------------------
(***************************************************************************)
(* Properties of stopping and eviction.                                    *)
(***************************************************************************)

\* C16: an entry leaves the registry only after its status has been set to
\* stopped: in every step that removes an instance id from the registry, the
\* entry removed has status stopped.
C16_RemovedOnlyWhenStopped ==
    [][\A id \in RegisteredIds :
          id \notin RegisteredIds' => Instance(id).status = "stopped"]_vars

\* the event loop resumes every stop task after its sleep and runs every
\* monitor loop each 30 s; requests and process exits are under no obligation
SpecSupervisorFair ==
    /\ Init
    /\ [][NextSupervisor]_vars
    /\ WF_vars(\E t \in stop_tasks : stop_kill(t))
    /\ WF_vars(\E t \in stop_tasks : stop_evict(t))
    /\ WF_vars(\E a \in AgentIds : monitor_agent_instances(a))

\* C17: an instance whose status is stopped is eventually removed from the
\* registry, whether a stop or a health poll set the status (stated for the
\* instance ids of the deploys of the first second).
C17_StoppedIsEvicted ==
    \A a \in ActiveAgents, i \in 0..(MaxReplicas - 1) :
        (/\ InstanceId(a, "deploy", 0, i) \in RegisteredIds
         /\ Instance(InstanceId(a, "deploy", 0, i)).status = "stopped")
        ~> (InstanceId(a, "deploy", 0, i) \notin RegisteredIds)

----------------------------------------------------------------------------
(***************************************************************************)
(* Properties of the no-answer watchdog.                                   *)
(***************************************************************************)

\* C18: the watchdog writes no_answer only over a ringing call: whenever the
\* last write to a call is the watchdog's, the status it replaced in the store
\* was ringing (never answered, completed, failed or transferred).
C18_NoAnswerOnlyFromRinging ==
    \A c \in DOMAIN calls :
        last[c].op = "no_answer" => last[c].from = "ringing"

----------------------------------------------------------------------------
(***************************************************************************)
(* Properties of the error answers.                                        *)
(***************************************************************************)

\* C19: a deploy that names an agent which is missing or inactive is
\* answered with a 404 and leaves the registry as it was.
C19_DeployOfMissingAgentIs404 ==
    [][\A a \in AgentIds \ ActiveAgents, n \in 1..MaxReplicas, auto \in BOOLEAN :
          deploy_agent(a, n, auto)
          => /\ response'.result = "404"
             /\ agent_instances' = agent_instances]_vars

----------------------------------------------------------------------------
(***************************************************************************)
(* Properties of the call timestamps.                                      *)
(***************************************************************************)

\* C20: in every reachable state, a call with both answered_at and ended_at
\* set has answered_at <= ended_at.
C20_AnsweredBeforeEnded ==
    \A c \in DOMAIN calls :
        (IsSome(calls[c].answered_at) /\ IsSome(calls[c].ended_at))
        => Get(calls[c].answered_at) <= Get(calls[c].ended_at)

----------------------------------------------------------------------------
(***************************************************************************)
(* Properties of the call status values and of the call endpoints.         *)
(***************************************************************************)

\* C21: in every reachable state the status of every stored call is one of
\* initiated, ringing, answered, completed, failed, no_answer, transferred.
C21_StatusInEnum ==
    \A c \in DOMAIN calls : calls[c].call_status \in CallStatuses

\* C22: when the gateway fails during an outbound initiation whose call
\* record exists, the record is kept and is failed after the step, with the
\* outcome text built from the error detail.
C22_GatewayFailureMarksFailed ==
    [][\A c \in CallIds, e \in GatewayErrors :
          gateway_fails(c, e)
          => /\ c \in DOMAIN calls'
             /\ calls'[c].call_status = "failed"
             /\ calls'[c].call_outcome =
                   Some(InitiateFailedText(initiations[c].via, e))]_vars

C22_Witness ==
    \E c \in DOMAIN calls :
        /\ last[c] = [op |-> "initiate_failed", arg |-> Some("sip"), at |-> now,
                      from |-> "answered"]
        /\ calls[c].call_status = "failed"
        /\ calls[c].call_outcome = Some("Failed to initiate: sip")

----------------------------------------------------------------------------
(***************************************************************************)
(* Properties of room events.                                              *)
(***************************************************************************)

\* C23: the cleanup after a participant_left changes only calls that are
\* answered: a call the cleanup writes is answered in the store before the
\* write and is, after it, that call completed with ended_at and the duration
\* from answered_at; a call in any other status is left as it is.
C23_CleanupTouchesOnlyAnswered ==
    [][\A c \in DOMAIN calls :
          ((\E i \in DOMAIN cleanups : cleanup_save(i)) /\ calls'[c] # calls[c])
          => /\ calls[c].call_status = "answered"
             /\ calls'[c] = CleanupDoc(calls[c], now)]_vars

\* C24: start on a call that is not initiated is rejected and leaves the call
\* record as it was.
C24_StartOnlyFromInitiated ==
    [][\A c \in DOMAIN calls, r \in RoomNames :
          (start_call(c, r) /\ calls[c].call_status # "initiated")
          => calls'[c] = calls[c]]_vars

\* C25: answer (the endpoint, or the participant_joined webhook of the
\* customer) on a call that is not ringing is rejected and leaves the call
\* record, its answered_at included, as it was.
C25_AnswerOnlyFromRinging ==
    [][\A c \in DOMAIN calls :
          ((answer_call(c) \/ handle_participant_joined(c, TRUE))
              /\ calls[c].call_status # "ringing")
          => calls'[c] = calls[c]]_vars

\* C26: end never moves an initiated call to completed; on a ringing call
\* that was never answered it sets completed and ended_at and leaves
\* duration_seconds unset.
C26_EndOnlyFromRingingOrAnswered ==
    [][\A c \in DOMAIN calls, o \in OptOutcomes :
          end_call(c, o)
          => /\ calls[c].call_status = "initiated"
                   => calls'[c].call_status # "completed"
             /\ (calls[c].call_status = "ringing" /\ calls[c].answered_at = None)
                   => /\ calls'[c].call_status = "completed"
                      /\ calls'[c].ended_at = Some(now)
                      /\ calls'[c].duration_seconds = None]_vars

\* C28: start leaves the started_at of a call record unchanged (every record
\* has one from its creation).
C28_StartKeepsStartedAt ==
    [][\A c \in DOMAIN calls, r \in RoomNames :
          start_call(c, r) => calls'[c].started_at = calls[c].started_at]_vars

\* C27 as stated: fail on an initiated, ringing or answered call sets failed,
\* ended_at and an outcome text "Failed: ...", whatever reason the request
\* carries.
C27_FailSetsOutcome ==
    [][\A c \in DOMAIN calls, r \in OptReasons :
          (fail_call(c, r) /\ calls[c].call_status \in {"initiated", "ringing", "answered"})
          => /\ calls'[c].call_status = "failed"
             /\ calls'[c].ended_at = Some(now)
             /\ calls'[c].call_outcome \in {Some("Failed: busy"), Some("Failed: ")}]_vars

\* C27, amended: fail on an initiated, ringing or answered call sets failed and
\* ended_at; it sets the outcome to "Failed: {reason}" when the request carries
\* a non-empty reason and leaves the outcome as it was otherwise.
C27_FailSetsOutcomeOfGivenReason ==
    [][\A c \in DOMAIN calls, r \in OptReasons :
          (fail_call(c, r) /\ calls[c].call_status \in {"initiated", "ringing", "answered"})
          => /\ calls'[c].call_status = "failed"
             /\ calls'[c].ended_at = Some(now)
             /\ r = Some("busy") => calls'[c].call_outcome = Some("Failed: busy")
             /\ r \in {None, Some("")} => calls'[c].call_outcome = calls[c].call_outcome]_vars

C27_Witness ==
    \E c \in DOMAIN calls :
        /\ last[c].op = "fail"
        /\ last[c].from = "answered"
        /\ last[c].arg = Some("busy")
        /\ calls[c].call_status = "failed"
        /\ calls[c].call_outcome = Some("Failed: busy")

----------------------------------------------------------------------------
(***************************************************************************)
(* Properties of spawn failures and of scaling to the current count.       *)
(***************************************************************************)

\* C29: when the spawn of an instance fails during a deploy or a scale-up,
\* nothing is registered for the failing instance (nor for those after it),
\* the caller gets an error answer in that step, and no coroutine is left
\* that would spawn a replacement (no scale request pending, no monitor or
\* auto-scaling loop started).
C29_SpawnFailureRegistersNothing ==
    [][LET \* what is registered under an id is the same before and after
           SameEntry(id) ==
               \/ id \notin RegisteredIds /\ id \notin RegisteredIds'
               \/ /\ id \in RegisteredIds
                  /\ id \in RegisteredIds'
                  /\ Instance(id)' = Instance(id)
       IN
       /\ \A a \in ActiveAgents, n \in 1..MaxReplicas, auto \in BOOLEAN,
             k \in 0..(MaxReplicas - 1) :
             deploy_agent_spawn_fails(a, n, auto, k)
             => /\ \A i \in k..(n - 1) : SameEntry(InstanceId(a, "deploy", now, i))
                /\ Len(agent_instances') <= Len(agent_instances) + k
                /\ response' = [op |-> "deploy", result |-> "500"]
                /\ scale_waits' = scale_waits
                /\ monitors' = monitors
                /\ auto_scalers' = auto_scalers
       /\ \A w \in scale_waits, k \in 0..(MaxInstances - 1) :
             scale_up_spawn_fails(w, k)
             => /\ \A i \in k..(w.scale_up_count - 1) :
                      SameEntry(InstanceId(w.agent_id, "scale", now, i))
                /\ Len(agent_instances') <= Len(agent_instances) + k
                /\ response' = [op |-> "scale", result |-> "500"]
                /\ scale_waits' = scale_waits \ {w}
                /\ monitors' = monitors
                /\ auto_scalers' = auto_scalers]_vars

C29_Witness ==
    /\ response = [op |-> "scale", result |-> "500"]
    /\ InstanceId("a1", "scale", now, 0) \in RegisteredIds
    /\ InstanceId("a1", "scale", now, 1) \notin RegisteredIds
    /\ scale_waits = {}

\* C30: a scale request whose target equals the number of starting or running
\* instances of the agent answers no_change and changes neither the registry
\* nor the stop or scale coroutines.
C30_ScaleToCurrentIsNoChange ==
    [][\A a \in AgentIds, n \in 0..MaxInstances :
          (scale_agent(a, n) /\ n = Len(CurrentInstances(a)))
          => /\ response' = [op |-> "scale", result |-> "no_change"]
             /\ agent_instances' = agent_instances
             /\ stop_tasks' = stop_tasks
             /\ scale_waits' = scale_waits]_vars

C30_Witness ==
    /\ response = [op |-> "scale", result |-> "no_change"]
    /\ Len(CurrentInstances("a1")) = 2
    /\ stop_tasks = {}
    /\ scale_waits = {}

----------------------------------------------------------------------------
(***************************************************************************)
(* Properties of rejected requests.                                        *)
(***************************************************************************)

\* C31: a scale request with a negative target is answered with an error and
\* changes neither the registry nor the stop or scale coroutines.
C31_NegativeTargetRejected ==
    [][\A a \in AgentIds, n \in NegativeTargets :
          scale_agent(a, n)
          => /\ response'.op = "scale"
             /\ response'.result \in {"400", "500"}
             /\ agent_instances' = agent_instances
             /\ stop_tasks' = stop_tasks
             /\ scale_waits' = scale_waits]_vars

C31_Witness ==
    /\ response = [op |-> "scale", result |-> "500"]
    /\ Len(CurrentInstances("a1")) = 2
    /\ stop_tasks = {}
    /\ scale_waits = {}


----------------------------------------------------------------------------
(***************************************************************************)
(* System health.  GET /health counts the running entries of the whole     *)
(* registry, asks the store for the number of ringing or answered calls    *)
(* and answers with their quotient and a status.  The quotient is kept as  *)
(* a fraction; for counts this small the float division and the            *)
(* comparisons with 0.8 and 1.0 are exact.                                 *)
(***************************************************************************)
MaxHealthInstances == 5
MaxHealthCalls == 6

\* how many ringing or answered calls the store reports to GET /health
HealthCallCounts == 0..MaxHealthCalls

\* len([inst for inst in agent_instances.values() if inst.status == "running"])
RunningInstances ==
    Len(SelectSeq(agent_instances, LAMBDA x : x.status = "running"))

\* system_load = active_calls / running_instances if running_instances > 0 else 0
SystemLoad(active_calls, running_instances) ==
    IF running_instances > 0
    THEN [num |-> active_calls, den |-> running_instances]
    ELSE [num |-> 0, den |-> 1]

\* the status with the first threshold taken inclusively
HealthStatusInclusive(system_load) ==
    IF 10 * system_load.num <= 8 * system_load.den THEN "healthy"
    ELSE IF system_load.num < system_load.den THEN "warning"
    ELSE "critical"

\* "healthy" if system_load < 0.8 else "warning" if system_load < 1.0 else "critical"
HealthStatus(system_load) ==
    IF 10 * system_load.num < 8 * system_load.den THEN "healthy"
    ELSE IF system_load.num < system_load.den THEN "warning"
    ELSE "critical"

\* GET /health, the store counting active_calls ringing or answered calls
get_system_health(active_calls) ==
    /\ LET system_load == SystemLoad(active_calls, RunningInstances) IN
         response' = [ op                |-> "health",
                       result            |-> HealthStatus(system_load),
                       total_instances   |-> Len(agent_instances),
                       running_instances |-> RunningInstances,
                       active_calls      |-> active_calls,
                       system_load       |-> system_load ]
    /\ UNCHANGED <<now, nticks>>
    /\ UNCHANGED callVars
    /\ UNCHANGED instVars
    /\ UNCHANGED roomVars
    /\ UNCHANGED <<scaleVars, watchdogs>>

\* the health endpoint over a registry left by one deploy of up to
\* MaxHealthInstances replicas
InitHealth ==
    /\ now = 0
    /\ nticks = 0
    /\ calls = <<>>
    /\ last = <<>>
    /\ initiations = <<>>
    /\ \E k \in 0..MaxHealthInstances :
          /\ agent_instances = DeployLoop(<<>>, "a1", "deploy", k, 0)
          /\ monitors = IF k = 0 THEN {} ELSE {"a1"}
    /\ stop_tasks = {}
    /\ scale_waits = {}
    /\ active_agents = <<>>
    /\ cleanups = <<>>
    /\ scaling_rules = <<>>
    /\ auto_scalers = <<>>
    /\ watchdogs = <<>>
    /\ response = [op |-> "none", result |-> "none"]

NextHealth ==
    \/ \E a \in ActiveAgents : get_agent_instances(a)
    \/ \E n \in HealthCallCounts : get_system_health(n)
    \/ \E d \in ClockSteps : advance_clock(d)

SpecHealth == InitHealth /\ [][NextHealth]_vars

\* C33: every health answer carries the load active_calls / running_instances,
\* or 0 when nothing is running, and the status healthy below 0.8, warning
\* from 0.8 to below 1.0 and critical from 1.0 on.
C33_HealthFollowsLoad ==
    response.op = "health"
    => LET a == response.active_calls
           r == response.running_instances
           l == response.system_load
       IN /\ l.den > 0
          /\ r = 0 => l.num = 0
          /\ r > 0 => l.num * r = a * l.den
          /\ r = 0 => response.result = "healthy"
          /\ (r > 0 /\ 5 * a < 4 * r) => response.result = "healthy"
          /\ (r > 0 /\ 5 * a >= 4 * r /\ a < r) => response.result = "warning"
          /\ (r > 0 /\ a >= r) => response.result = "critical"

\* C33 witness: four active calls on five running instances are answered
\* with a warning.
C33_Witness ==
    /\ response.op = "health"
    /\ response.result = "warning"
    /\ response.active_calls = 4
    /\ response.running_instances = 5
    /\ RunningInstances = 5


----------------------------------------------------------------------------
(***************************************************************************)
(* Properties of instance ids and of participant counts.                   *)
(***************************************************************************)

\* C34: no deploy and no scale-up writes a registry entry under an instance
\* id that is already registered.
C34_InstanceIdsUnique ==
    [][/\ \A a \in ActiveAgents, n \in 1..MaxReplicas, auto \in BOOLEAN :
            (deploy_agent(a, n, auto) /\ response'.result = "200")
            => DeployedIds(a, "deploy", n) \cap RegisteredIds = {}
       /\ \A w \in scale_waits :
            scale_up(w)
            => DeployedIds(w.agent_id, "scale", w.scale_up_count)
                 \cap RegisteredIds = {}]_vars


\* C35: the participant count of every routing entry is zero or more.
C35_ParticipantCountNotNegative ==
    \A r \in DOMAIN active_agents : active_agents[r].participant_count >= 0


----------------------------------------------------------------------------
(***************************************************************************)
(* Deploys with and without auto_scale over a registry that is polled.     *)
(***************************************************************************)
NextDeploy ==
    \/ \E a \in AgentIds, n \in 1..MaxReplicas, auto \in BOOLEAN :
          deploy_agent(a, n, auto)
    \/ \E a \in AgentIds : get_agent_instances(a)
    \/ \E id \in RegisteredIds : process_exit(id)
    \/ \E d \in ClockSteps : advance_clock(d)

SpecDeploy == Init /\ [][NextDeploy]_vars

\* C36: a deploy for an agent that has an instance in starting or running is
\* answered with an error and leaves the registry as it is when auto_scale is
\* false; with auto_scale true it is accepted and the registry grows.
C36_RedeployNeedsAutoScale ==
    [][\A a \in ActiveAgents, n \in 1..MaxReplicas, auto \in BOOLEAN :
          (deploy_agent(a, n, auto) /\ CurrentInstances(a) # <<>>)
          => IF auto
             THEN /\ response' = [op |-> "deploy", result |-> "200"]
                  /\ Len(agent_instances') > Len(agent_instances)
             ELSE /\ response'.op = "deploy"
                  /\ response'.result \in {"400", "500"}
                  /\ agent_instances' = agent_instances]_vars


----------------------------------------------------------------------------
(***************************************************************************)
(* SIP call transfer (api/routes/sip_integration.py transfer_sip_call).    *)
(* The handler loads the call, tests its status and saves the document     *)
(* whole; nothing is awaited between the load and the save.                *)
(***************************************************************************)
Destinations == {"+15550100", "sales"}
TransferTypes == {"attended", "blind"}

\* f"Transferred to {destination} ({transfer_type})"
TransferText(destination, transfer_type) ==
    CASE destination = "+15550100" /\ transfer_type = "attended"
           -> "Transferred to +15550100 (attended)"
      [] destination = "+15550100" /\ transfer_type = "blind"
           -> "Transferred to +15550100 (blind)"
      [] destination = "sales" /\ transfer_type = "attended"
           -> "Transferred to sales (attended)"
      [] destination = "sales" /\ transfer_type = "blind"
           -> "Transferred to sales (blind)"

TransferDoc(doc, destination, transfer_type) ==
    [doc EXCEPT !.call_outcome = Some(TransferText(destination, transfer_type)),
                !.call_status = "transferred"]

\* transfer_sip_call with the status test left out
TransferAllowedAlways(status) == TRUE

\* call.call_status in ["answered", "ringing"]
TransferAllowed(status) == status \in {"answered", "ringing"}

\* POST /calls/{id}/transfer?destination=&transfer_type=
transfer_sip_call(c, destination, transfer_type) ==
    /\ IF c \notin DOMAIN calls
       THEN \* raise HTTPException(status_code=404, ...)
            /\ response' = [op |-> "transfer", result |-> Surfaced("404")]
            /\ UNCHANGED callVars
       ELSE IF ~TransferAllowed(calls[c].call_status)
       THEN \* raise HTTPException(status_code=400, ...)
            /\ response' = [op |-> "transfer", result |-> Surfaced("400")]
            /\ UNCHANGED callVars
       ELSE /\ Save("transfer", c, Some(destination),
                    TransferDoc(calls[c], destination, transfer_type))
            /\ response' = [op |-> "transfer", result |-> "transfer_initiated"]
    /\ UNCHANGED <<now, nticks>>
    /\ UNCHANGED instVars
    /\ UNCHANGED roomVars
    /\ UNCHANGED <<scaleVars, watchdogs>>

\* SIP calls with their no-answer watchdog, the call endpoints and transfers
NextTransfer ==
    \/ \E c \in CallIds, a \in AgentIds, r \in RoomNames : initiate_sip_call(c, a, r)
    \/ \E c \in CallIds : watchdog_poll(c)
    \/ \E c \in CallIds : watchdog_final(c)
    \/ \E c \in CallIds : watchdog_save(c)
    \/ \E c \in CallIds : answer_call(c)
    \/ \E c \in CallIds, o \in OptOutcomes : end_call(c, o)
    \/ \E c \in CallIds, r \in OptReasons : fail_call(c, r)
    \/ \E c \in CallIds, d \in Destinations, t \in TransferTypes :
          transfer_sip_call(c, d, t)

SpecTransfer == Init /\ [][NextTransfer]_vars

====
